---- MODULE Spec2Model ----
(***************************************************************************)
(* Model of pywapploxx.py: the IP-block file helpers and the Controller's  *)
(* login / logout / authenticated dispatch.                                *)
(*                                                                         *)
(* A Controller call is a stack of Python frames.  The only place a call   *)
(* waits is the HTTP GET of _get_authenticated_endpoint, so one step of    *)
(* the model runs the code from one GET (or from the caller's call) to the *)
(* next GET or to the end of the call.  No frame catches an exception, so  *)
(* a raise empties the stack.                                              *)
(*                                                                         *)
(* Time is counted in ticks, Res ticks to the second, so that              *)
(* int(time.time()) and math.ceil have something to round.                 *)
(***************************************************************************)
EXTENDS Integers, Sequences, FiniteSets

\* ------------------------------------------------------------- bounds
Res == 2          \* ticks per second
MaxTime == 3      \* the clock stops advancing at this tick
MaxBlock == 2     \* largest BlockTime / save() argument, in seconds
MaxDepth == 4     \* largest number of frames on the stack

\* ---------------------------------------------------------- constants
NoTimestamp == -1     \* _last_successful_login_timestamp = None

LOGIN == "login.cgi"
LOGOUT == "logout.cgi"
USER_HOME == "user_home.cgi"
USER_SMARTLOXX == "user_smartloxx.cgi"
GET_PANEL_STATUS == "getPanelStatus.cgi"
SET_PANEL == "setPanel.cgi"
SET_REMOTE_ACCESS == "setRemoteAccess.cgi"
GET_SYSTEM_STATUS == "getSystemStatus.cgi"
GET_EVENT_LOG == "getEventLog.cgi"

AUTH == {LOGIN, LOGOUT}

DefaultParams == {"ts", "Source"}
LoginParams == {"Username", "Password"}

\* HTTP status codes the controller may answer with.
Statuses == {200, 304, 401, 404, 500}

\* Parsed login bodies: Status / ErrMsg / BlockTime.
NoBody == [Status |-> "", ErrMsg |-> "", BlockTime |-> 0]
Bodies ==
    {[Status |-> "SUCCESS", ErrMsg |-> e, BlockTime |-> 0] :
        e \in {"", "LOGIN_IP_BLOCKED"}}
    \cup {[Status |-> "FAIL", ErrMsg |-> "UNAUTH", BlockTime |-> 0]}
    \cup {[Status |-> "FAIL", ErrMsg |-> "LOGIN_IP_BLOCKED", BlockTime |-> b] :
        b \in 0..MaxBlock}

\* What one GET can come back with: a response, or an exception of requests.
Responses ==
    {[kind |-> "http", status |-> st, body |-> NoBody] : st \in Statuses}
    \cup {[kind |-> "error", status |-> 0, body |-> NoBody]}
\* The login endpoint answers 200 with a JSON body, or with an error status.
LoginResponses ==
    {[kind |-> "http", status |-> 200, body |-> b] : b \in Bodies}
    \cup {r \in Responses : r.status \notin {200, 304}}

VARIABLES
    now,                 \* time.time(), in ticks
    file,                \* the file .wapploxx-ip-block-time
    save_ip_block_time,  \* Controller.save_ip_block_time
    logged_in,           \* Controller._logged_in
    last_login,          \* Controller._last_successful_login_timestamp
    stack,               \* the frames of the running call, innermost last
    call,                \* the caller's current (or last) call
    result,              \* how the last call ended
    reqs,                \* the GETs issued by the current call, in order
    relogins,            \* executions of line 233 in the current call
    flag0,               \* _logged_in when the current call began
    file0,               \* the file when the current call began
    saved,               \* the last _save_ip_block still in the file
    ev,                  \* the last step taken and the response it consumed
    proc,                \* two processes on one file: where each one is
    lost,                \* the unexpired record a stale clearing step deleted
    bypassed,            \* a login() check found no file while lost was in force
    coll,                \* a Locks object: whether it is built, and its _locks
    snapshot,            \* the List the Locks object was built from
    lock,                \* a Lock made by Lock(controller, id): id and _info
    task,                \* the current (or last) call on a Lock or on Locks
    out,                 \* how that call ended
    cmds,                \* the set_remote_access calls of a Locks.open / close
    fetches,             \* get_user_smartloxx calls made for lock
    payload              \* what the last returned response parsed to

\* The Controller of one process, with what the claims record about it.
ctlVars == <<save_ip_block_time, logged_in, last_login, stack, call,
             result, reqs, relogins, flag0, file0, saved, ev>>
\* The processes that share the file.
raceVars == <<proc, lost, bypassed>>

\* The Lock and Locks objects.
lockVars == <<coll, snapshot, lock, task, out, cmds, fetches, payload>>

vars == <<now, file, ctlVars, raceVars, lockVars>>

\* ------------------------------------------------- the IP-block file
Absent == [kind |-> "absent", val |-> 0]
Garbage == [kind |-> "garbage", val |-> 0]
Stored(n) == [kind |-> "int", val |-> n]

NoSave == [valid |-> FALSE, seconds |-> 0, at |-> 0, by |-> "none"]

\* int(time.time())
IntTime(t) == t \div Res

\* int(math.ceil(x)) of x = ticks / Res, ticks >= 0
CeilSeconds(ticks) == (ticks + Res - 1) \div Res

Max(a, b) == IF a >= b THEN a ELSE b

\* _save_ip_block: the file's new content
SaveNoFloor(t, seconds) == Stored(CeilSeconds(t) + seconds)
SaveIpBlock(t, seconds) == Stored(IntTime(t) + seconds)

\* _remove_ip_block
RemoveIpBlock(f) == Absent

\* line 147: int(math.ceil(max(float(f.read()) - time.time(), 0)))
RemainingFloor(f, t) == Max(f.val * Res - t, 0) \div Res
RemainingSeconds(f, t) == CeilSeconds(Max(f.val * Res - t, 0))

\* _load_ip_block_remaining_seconds: the value returned and the file left
LoadKeepsExpired(f, t) ==
    IF f.kind = "absent" THEN [value |-> 0, file |-> f]
    ELSE [value |-> IF f.kind = "garbage" THEN 0 ELSE RemainingSeconds(f, t),
          file |-> f]
LoadKeepsGarbage(f, t) ==
    IF f.kind # "int" THEN [value |-> 0, file |-> f]
    ELSE LET r == RemainingSeconds(f, t)
         IN [value |-> r, file |-> IF r <= 0 THEN RemoveIpBlock(f) ELSE f]
LoadIpBlockRemainingSeconds(f, t) ==
    IF f.kind = "absent" THEN [value |-> 0, file |-> f]
    ELSE LET r == IF f.kind = "garbage" THEN 0 ELSE RemainingSeconds(f, t)
         IN [value |-> r, file |-> IF r <= 0 THEN RemoveIpBlock(f) ELSE f]

\* _check_ip_block: whether it raises IPBlockedError
CheckNever(f, t) == FALSE
CheckIpBlock(f, t) == LoadIpBlockRemainingSeconds(f, t).value > 0

\* ------------------------------------------------------- exceptions
\* AuthError.AUTH_ERROR_DESCRIPTIONS.get(ErrMsg, "Unknown ...")
AuthErrorMessage(errmsg) ==
    CASE errmsg = "UNAVAILABLE" -> "This account is currently not available"
      [] errmsg = "TOO_MANY_USERS" -> "Too many users are connected"
      [] errmsg = "ACCOUNT_LOGGED" -> "This account is already logged in"
      [] errmsg = "UNAVAILABLE_BY_ADMIN" -> "Administrator has been logged in"
      [] errmsg = "LOGIN_ACCOUNT_BLOCKED" -> "Account blocked"
      [] errmsg = "LOGIN_IP_BLOCKED" -> "Wrong entry. Login blocked."
      [] errmsg = "UNAUTH" -> "Please check your entry"
      [] errmsg = "FAIL_TIMEOUT" -> "Server error"
      [] OTHER -> "Unknown authentication error"

Pending == [kind |-> "pending", status |-> 0, body |-> NoBody, msg |-> "", value |-> 0]
Returned(resp) == [Pending EXCEPT !.kind = "return", !.status = resp.status, !.body = resp.body]
ReturnedBody(body) == [Pending EXCEPT !.kind = "return", !.body = body]
ReturnedValue(v) == [Pending EXCEPT !.kind = "return", !.value = v]
Raised(kind, msg, status) == [Pending EXCEPT !.kind = kind, !.msg = msg, !.status = status]

\* -------------------------------------------------------- the frames
Frame(fn, pc, endpoint, use_default_params, params) ==
    [fn |-> fn, pc |-> pc, endpoint |-> endpoint,
     use_default_params |-> use_default_params, params |-> params]
LoginFrame == Frame("login", "await", LOGIN, TRUE, LoginParams)

Top(st) == st[Len(st)]
Pop(st) == SubSeq(st, 1, Len(st) - 1)

\* line 210
RequiresLoginButLogin(flag, endpoint) == ~flag /\ endpoint # LOGIN
RequiresLoginNever(flag, endpoint) == FALSE
RequiresLogin(flag, endpoint) == ~flag /\ endpoint \notin AUTH

\* lines 215-221: the params the GET is sent with
MergeParams(use_default_params, params) ==
    IF use_default_params THEN DefaultParams \cup params ELSE params

\* requests.Response.ok, line 236: no 4xx and no 5xx
OkBelow500(status) == status < 500
Ok(status) == ~(status >= 400 /\ status < 600)

\* line 232
IsUnauthorized(status) == status = 401

\* An exception leaves every frame.
Raise(s, kind, msg, status) ==
    [s EXCEPT !.stack = <<>>, !.result = Raised(kind, msg, status)]

\* lines 215-228 of the innermost frame: merge the params and send the GET.
SendRequest(s) ==
    LET fr == Top(s.stack)
        p == MergeParams(fr.use_default_params, fr.params)
    IN [s EXCEPT !.stack[Len(s.stack)] = [fr EXCEPT !.pc = "await", !.params = p],
                 !.reqs = Append(@, [endpoint |-> fr.endpoint, params |-> p,
                                     flag |-> s.logged_in])]

RECURSIVE GetAuthenticatedEndpoint(_, _, _, _, _)

\* Controller.login up to its GET (lines 258-268)
Login(s, t, check_ip_block) ==
    LET l == LoadIpBlockRemainingSeconds(s.file, t)
        s1 == IF check_ip_block
              THEN [s EXCEPT !.file = l.file,
                             !.saved = IF l.file = s.file THEN @ ELSE NoSave]
              ELSE s
    IN IF check_ip_block /\ CheckIpBlock(s.file, t)
       THEN Raise(s1, "IPBlockedError", "", 0)
       ELSE GetAuthenticatedEndpoint(
                [s1 EXCEPT !.stack = Append(@, LoginFrame)],
                t, LOGIN, TRUE, LoginParams)

\* Controller._get_authenticated_endpoint up to its GET (lines 203-228)
GetAuthenticatedEndpoint(s, t, endpoint, use_default_params, params) ==
    LET s1 == [s EXCEPT !.stack = Append(@,
                  Frame("dispatch", "prelogin", endpoint, use_default_params, params))]
    IN IF RequiresLogin(s.logged_in, endpoint)
       THEN Login(s1, t, TRUE)
       ELSE SendRequest(s1)

\* Controller._validate_login_response (lines 243-256)
ValidateSavesAlways(body, save, f, t) ==
    IF body.Status = "SUCCESS"
    THEN [success |-> TRUE, file |-> RemoveIpBlock(f), wrote |-> FALSE]
    ELSE IF body.ErrMsg = "LOGIN_IP_BLOCKED"
         THEN [success |-> FALSE, file |-> SaveIpBlock(t, body.BlockTime), wrote |-> TRUE]
         ELSE [success |-> FALSE, file |-> f, wrote |-> FALSE]
ValidateKeepsBlock(body, save, f, t) ==
    IF body.Status = "SUCCESS"
    THEN [success |-> TRUE, file |-> f, wrote |-> FALSE]
    ELSE IF body.ErrMsg = "LOGIN_IP_BLOCKED" /\ save
         THEN [success |-> FALSE, file |-> SaveIpBlock(t, body.BlockTime), wrote |-> TRUE]
         ELSE [success |-> FALSE, file |-> f, wrote |-> FALSE]
ValidateAcceptsAll(body, save, f, t) ==
    IF body.Status = "SUCCESS"
    THEN [success |-> TRUE, file |-> RemoveIpBlock(f), wrote |-> FALSE]
    ELSE IF body.ErrMsg = "LOGIN_IP_BLOCKED" /\ save
         THEN [success |-> TRUE, file |-> SaveIpBlock(t, body.BlockTime), wrote |-> TRUE]
         ELSE [success |-> TRUE, file |-> f, wrote |-> FALSE]
ValidateLoginResponse(body, save, f, t) ==
    IF body.Status = "SUCCESS"
    THEN [success |-> TRUE, file |-> RemoveIpBlock(f), wrote |-> FALSE]
    ELSE IF body.ErrMsg = "LOGIN_IP_BLOCKED" /\ save
         THEN [success |-> FALSE, file |-> SaveIpBlock(t, body.BlockTime), wrote |-> TRUE]
         ELSE [success |-> FALSE, file |-> f, wrote |-> FALSE]

\* login() has returned to the frame now innermost (lines 213-214, 233-234).
AfterLogin(s, t, body) ==
    IF s.stack = <<>>
    THEN [s EXCEPT !.result = ReturnedBody(body)]
    ELSE LET fr == Top(s.stack)
         IN IF fr.pc = "prelogin"
            THEN SendRequest(s)
            ELSE GetAuthenticatedEndpoint(
                     [s EXCEPT !.stack[Len(s.stack)].pc = "retry"],
                     t, fr.endpoint, TRUE, fr.params)

\* Controller.login after its GET (lines 269-273)
LoginValidatedNoTimestamp(s, t, resp) ==
    LET v == ValidateLoginResponse(resp.body, s.save_ip_block_time, s.file, t)
        s1 == [s EXCEPT !.file = v.file,
                        !.saved = IF v.wrote
                                  THEN [valid |-> TRUE, seconds |-> resp.body.BlockTime, at |-> t,
                                        by |-> "response"]
                                  ELSE IF v.file = s.file THEN @ ELSE NoSave]
    IN IF v.success
       THEN AfterLogin([s1 EXCEPT !.logged_in = TRUE, !.stack = Pop(@)], t, resp.body)
       ELSE Raise(s1, "AuthError", AuthErrorMessage(resp.body.ErrMsg), resp.status)
LoginValidated(s, t, resp) ==
    LET v == ValidateLoginResponse(resp.body, s.save_ip_block_time, s.file, t)
        s1 == [s EXCEPT !.file = v.file,
                        !.saved = IF v.wrote
                                  THEN [valid |-> TRUE, seconds |-> resp.body.BlockTime, at |-> t,
                                        by |-> "response"]
                                  ELSE IF v.file = s.file THEN @ ELSE NoSave]
    IN IF v.success
       THEN AfterLogin([s1 EXCEPT !.logged_in = TRUE, !.last_login = t,
                                  !.stack = Pop(@)], t, resp.body)
       ELSE Raise(s1, "AuthError", AuthErrorMessage(resp.body.ErrMsg), resp.status)

\* A frame of _get_authenticated_endpoint returns resp (line 241, or line 234
\* for a frame waiting on its retry) to the frame now innermost.
RECURSIVE Deliver(_, _, _)
Deliver(s, t, resp) ==
    IF s.stack = <<>>
    THEN [s EXCEPT !.result = Returned(resp)]
    ELSE IF Top(s.stack).fn = "login"
         THEN LoginValidated(s, t, resp)
         ELSE Deliver([s EXCEPT !.stack = Pop(@)], t, resp)

\* Lines 229-241 of the innermost frame, with the GET's outcome.
Respond(s, t, resp) ==
    IF resp.kind = "error"
    THEN Raise(s, "TransportError", "", 0)
    ELSE IF IsUnauthorized(resp.status)
    THEN Login([s EXCEPT !.stack[Len(s.stack)].pc = "relogin",
                         !.relogins = @ + 1], t, TRUE)
    ELSE IF ~Ok(resp.status)
    THEN Raise(s, "WAppLoxxError", Top(s.stack).endpoint, resp.status)
    ELSE Deliver([s EXCEPT !.stack = Pop(@)], t, resp)

\* ----------------------------------------------------- state machine
Cur ==
    [stack |-> stack, logged_in |-> logged_in, last_login |-> last_login,
     file |-> file, saved |-> saved, result |-> result, reqs |-> reqs,
     relogins |-> relogins, save_ip_block_time |-> save_ip_block_time]

\* The state a new call of the caller starts from.
Fresh == [Cur EXCEPT !.result = Pending, !.reqs = <<>>, !.relogins = 0]

Become(s) ==
    /\ stack' = s.stack
    /\ logged_in' = s.logged_in
    /\ last_login' = s.last_login
    /\ file' = s.file
    /\ saved' = s.saved
    /\ result' = s.result
    /\ reqs' = s.reqs
    /\ relogins' = s.relogins
    /\ UNCHANGED <<now, save_ip_block_time>>

NoCall == [op |-> "none", endpoint |-> "", check |-> FALSE, seconds |-> 0]
CallOf(op, endpoint) == [NoCall EXCEPT !.op = op, !.endpoint = endpoint]
NoEv == [type |-> "init", status |-> 0, body |-> NoBody]
CallEv == [NoEv EXCEPT !.type = "call"]

Idle == stack = <<>>

\* The processes of the two-process model, at rest.
Procs == {1, 2}
NoLoss == [valid |-> FALSE, val |-> 0]
IdleProc == [op |-> "idle", pc |-> "idle", seen |-> Absent, seconds |-> 0,
             orphan |-> FALSE, out |-> "none"]
RaceIdle ==
    /\ proc = [p \in Procs |-> IdleProc]
    /\ lost = NoLoss
    /\ bypassed = FALSE

\* No Lock and no Locks object yet.
NoInfo == [ID |-> <<>>, Name |-> "", HwId |-> "", Cluster |-> <<>>, Disabled |-> ""]
NoLock == [id |-> 0, info |-> NoInfo]
NoColl == [built |-> FALSE, locks |-> <<>>]
NoTask == [op |-> "none", accessor |-> "", endpoint |-> "", who |-> 0, attr |-> "",
           id |-> 0, idx |-> 0, action |-> "", running |-> FALSE]
NoOut == [kind |-> "none", text |-> "", number |-> 0, flag |-> FALSE]
NoPayload == [kind |-> "none", List |-> <<>>, AvailableLoxx |-> <<>>,
              RemoteAccessTime |-> <<>>]
LocksIdle ==
    /\ coll = NoColl
    /\ snapshot = <<>>
    /\ lock = NoLock
    /\ task = NoTask
    /\ out = NoOut
    /\ cmds = <<>>
    /\ fetches = 0
    /\ payload = NoPayload

Begin(c, s) ==
    /\ Idle
    /\ UNCHANGED <<raceVars, lockVars>>
    /\ call' = c
    /\ ev' = CallEv
    /\ flag0' = logged_in
    /\ file0' = file
    /\ Become(s)

Init ==
    /\ now = 0
    /\ file \in {Absent, Garbage} \cup {Stored(n) : n \in 0..MaxBlock}
    /\ save_ip_block_time \in BOOLEAN
    /\ logged_in = FALSE
    /\ last_login = NoTimestamp
    /\ stack = <<>>
    /\ call = NoCall
    /\ result = Pending
    /\ reqs = <<>>
    /\ relogins = 0
    /\ flag0 = FALSE
    /\ file0 = file
    /\ saved = NoSave
    /\ ev = NoEv
    /\ RaceIdle
    /\ LocksIdle

\* time passes
Tick ==
    /\ now < MaxTime
    /\ now' = now + 1
    /\ ev' = [NoEv EXCEPT !.type = "tick"]
    /\ UNCHANGED <<file, save_ip_block_time, logged_in, last_login, stack, call,
                   result, reqs, relogins, flag0, file0, saved>>
    /\ UNCHANGED <<raceVars, lockVars>>

\* _save_ip_block(seconds)
CallSaveIpBlock ==
    \E seconds \in 0..MaxBlock :
        Begin([CallOf("_save_ip_block", "") EXCEPT !.seconds = seconds],
              [Fresh EXCEPT !.file = SaveIpBlock(now, seconds),
                            !.saved = [valid |-> TRUE, seconds |-> seconds, at |-> now,
                                       by |-> "call"],
                            !.result = ReturnedValue(0)])

\* _remove_ip_block()
CallRemoveIpBlock ==
    Begin(CallOf("_remove_ip_block", ""),
          [Fresh EXCEPT !.file = RemoveIpBlock(file), !.saved = NoSave,
                        !.result = ReturnedValue(0)])

\* _load_ip_block_remaining_seconds()
CallLoadIpBlockRemainingSeconds ==
    LET l == LoadIpBlockRemainingSeconds(file, now)
    IN Begin(CallOf("_load_ip_block_remaining_seconds", ""),
             [Fresh EXCEPT !.file = l.file,
                           !.saved = IF l.file = file THEN @ ELSE NoSave,
                           !.result = ReturnedValue(l.value)])

\* Controller.login(check_ip_block)
CallLogin ==
    \E check \in BOOLEAN :
        Begin([CallOf("login", LOGIN) EXCEPT !.check = check],
              Login(Fresh, now, check))

\* Controller.logout()
CallLogout ==
    Begin(CallOf("logout", LOGOUT),
          GetAuthenticatedEndpoint(Fresh, now, LOGOUT, TRUE, {}))

\* Controller.__exit__
CallExit ==
    Begin(CallOf("__exit__", LOGOUT),
          GetAuthenticatedEndpoint(Fresh, now, LOGOUT, TRUE, {}))

\* get_user_info()
CallGetUserInfo ==
    Begin(CallOf("get_user_info", USER_HOME),
          GetAuthenticatedEndpoint(Fresh, now, USER_HOME, TRUE, {}))

\* get_user_smartloxx()
CallGetUserSmartloxx ==
    Begin(CallOf("get_user_smartloxx", USER_SMARTLOXX),
          GetAuthenticatedEndpoint(Fresh, now, USER_SMARTLOXX, TRUE, {}))

\* set_panel(action)
CallSetPanel ==
    Begin(CallOf("set_panel", SET_PANEL),
          GetAuthenticatedEndpoint(Fresh, now, SET_PANEL, TRUE, {"Action"}))

\* get_system_status(pause_auto_logout)
CallGetSystemStatus ==
    Begin(CallOf("get_system_status", GET_SYSTEM_STATUS),
          GetAuthenticatedEndpoint(Fresh, now, GET_SYSTEM_STATUS, TRUE,
                                   {"LoxxState", "PauseAutoLogout"}))

\* get_event_log(index, count, type)
CallGetEventLog ==
    Begin(CallOf("get_event_log", GET_EVENT_LOG),
          GetAuthenticatedEndpoint(Fresh, now, GET_EVENT_LOG, TRUE,
                                   {"Index", "Count", "Type"}))

\* get_panel_status()
CallGetPanelStatus ==
    Begin(CallOf("get_panel_status", GET_PANEL_STATUS),
          GetAuthenticatedEndpoint(Fresh, now, GET_PANEL_STATUS, TRUE, {}))

\* set_remote_access(lock_id, action)
CallSetRemoteAccess ==
    Begin(CallOf("set_remote_access", SET_REMOTE_ACCESS),
          GetAuthenticatedEndpoint(Fresh, now, SET_REMOTE_ACCESS, TRUE,
                                   {"LoxxId", "Action"}))

\* _get_authenticated_endpoint(endpoint, use_default_params, params) called directly
CallGetAuthenticatedEndpoint ==
    \E endpoint \in {LOGOUT, GET_PANEL_STATUS}, udp \in BOOLEAN :
        Begin(CallOf("_get_authenticated_endpoint", endpoint),
              GetAuthenticatedEndpoint(Fresh, now, endpoint, udp, {"Action"}))

\* The GET of the innermost frame comes back.
Response ==
    /\ stack # <<>>
    /\ \E resp \in (IF Top(stack).endpoint = LOGIN THEN LoginResponses ELSE Responses) :
        LET s == Respond(Cur, now, resp)
        IN /\ Len(s.stack) <= MaxDepth
           /\ ev' = [type |-> resp.kind, status |-> resp.status, body |-> resp.body]
           /\ Become(s)
           /\ UNCHANGED <<call, flag0, file0>>
           /\ UNCHANGED <<raceVars, lockVars>>

Next ==
    \/ Tick
    \/ CallSaveIpBlock
    \/ CallRemoveIpBlock
    \/ CallLoadIpBlockRemainingSeconds
    \/ CallLogin
    \/ CallLogout
    \/ CallExit
    \/ CallGetUserInfo
    \/ CallGetUserSmartloxx
    \/ CallGetPanelStatus
    \/ CallSetPanel
    \/ CallSetRemoteAccess
    \/ CallGetSystemStatus
    \/ CallGetEventLog
    \/ CallGetAuthenticatedEndpoint
    \/ Response

Spec == Init /\ [][Next]_vars

\* The shape of the state: the innermost frame is the one waiting on its GET,
\* a frame of login() waits on a dispatch frame, and a dispatch frame waits on
\* login() (lines 213, 233) or on its own retry (line 234).
TypeOK ==
    /\ now \in 0..MaxTime
    /\ logged_in \in BOOLEAN
    /\ Len(stack) <= MaxDepth
    /\ stack # <<>> => Top(stack).fn = "dispatch" /\ Top(stack).pc = "await"
    /\ \A i \in 1..(Len(stack) - 1) :
          IF stack[i].fn = "login" \/ stack[i].pc = "retry"
          THEN stack[i + 1].fn = "dispatch"
          ELSE stack[i].pc \in {"prelogin", "relogin"} /\ stack[i + 1].fn = "login"
\* ------------------------------------------- two processes, one file
\* The functions of the IP-block file taken apart at their file-system
\* calls: _load_ip_block_remaining_seconds reads (lines 146-147) and then
\* clears through _remove_ip_block (isfile, line 135; remove, line 136);
\* _save_ip_block opens for writing, which empties the file (line 125), and
\* then writes (line 126).  Nothing locks the file, so the steps of the two
\* processes interleave freely.  A file removed while a process holds it
\* open for writing is gone: that write lands in the unlinked file.

\* os.remove, line 136: what the path holds afterwards
UnlinkIfSeen(f, seen) == IF f = seen THEN Absent ELSE f
Unlink(f, seen) == Absent

\* open(..., "w"), line 125: the file exists and is empty
Truncated == Garbage

RaceCtlInit ==
    /\ save_ip_block_time = TRUE
    /\ logged_in = FALSE
    /\ last_login = NoTimestamp
    /\ stack = <<>>
    /\ call = NoCall
    /\ result = Pending
    /\ reqs = <<>>
    /\ relogins = 0
    /\ flag0 = FALSE
    /\ file0 = Absent
    /\ saved = NoSave
    /\ ev = NoEv

RaceInit ==
    /\ now = 0
    /\ file \in {Absent} \cup {Stored(n) : n \in 0..MaxBlock}
    /\ RaceCtlInit
    /\ RaceIdle
    /\ LocksIdle

\* What a record of proc becomes when its function has returned value r
\* (or, for login(), when _check_ip_block has seen r).
Finished(pr, r) ==
    IF pr.op = "login"
    THEN IF r > 0
         THEN [IdleProc EXCEPT !.out = "IPBlockedError"]
         ELSE [pr EXCEPT !.pc = "sent"]
    ELSE [IdleProc EXCEPT !.out = "return"]

RaceTick ==
    /\ now < MaxTime
    /\ now' = now + 1
    /\ UNCHANGED <<file, ctlVars, raceVars, lockVars>>

\* a process calls _load_ip_block_remaining_seconds()
RaceCallLoad(p) ==
    /\ proc[p].pc = "idle"
    /\ proc' = [proc EXCEPT ![p] = [IdleProc EXCEPT !.op = "load", !.pc = "read"]]
    /\ UNCHANGED <<now, file, ctlVars, lockVars, lost, bypassed>>

\* a process calls login(): _check_ip_block first (line 260)
RaceCallLogin(p) ==
    /\ proc[p].pc = "idle"
    /\ proc' = [proc EXCEPT ![p] = [IdleProc EXCEPT !.op = "login", !.pc = "read"]]
    /\ UNCHANGED <<now, file, ctlVars, lockVars, lost, bypassed>>

\* a process calls _save_ip_block(seconds)
RaceCallSave(p) ==
    /\ proc[p].pc = "idle"
    /\ \E seconds \in 1..MaxBlock :
          proc' = [proc EXCEPT ![p] = [IdleProc EXCEPT !.op = "save", !.pc = "open",
                                                       !.seconds = seconds]]
    /\ UNCHANGED <<now, file, ctlVars, lockVars, lost, bypassed>>

\* lines 145-153: read the file and decide whether to clear it
RaceRead(p) ==
    /\ proc[p].pc = "read"
    /\ LET r == IF file.kind = "int" THEN RemainingSeconds(file, now) ELSE 0
       IN /\ proc' = [proc EXCEPT ![p] =
                        IF file.kind # "absent" /\ r <= 0
                        THEN [@ EXCEPT !.pc = "isfile", !.seen = file]
                        ELSE Finished(@, r)]
          /\ bypassed' = (bypassed \/ (proc[p].op = "login" /\ file.kind = "absent"
                                      /\ lost.valid /\ lost.val * Res > now))
    /\ UNCHANGED <<now, file, ctlVars, lockVars, lost>>

\* line 135: os.path.isfile
RaceIsFile(p) ==
    /\ proc[p].pc = "isfile"
    /\ proc' = [proc EXCEPT ![p] =
                  IF file.kind # "absent" THEN [@ EXCEPT !.pc = "unlink"]
                  ELSE Finished(@, 0)]
    /\ UNCHANGED <<now, file, ctlVars, lockVars, lost, bypassed>>

\* line 136: os.remove; FileNotFoundError when the other process got there first
RaceUnlink(p) ==
    /\ proc[p].pc = "unlink"
    /\ IF file.kind = "absent"
       THEN /\ proc' = [proc EXCEPT ![p] = [IdleProc EXCEPT !.out = "FileNotFoundError"]]
            /\ UNCHANGED <<file, lost>>
       ELSE /\ file' = Unlink(file, proc[p].seen)
            /\ proc' = [q \in Procs |->
                          IF q = p THEN Finished(proc[p], 0)
                          ELSE IF proc[q].pc = "write" /\ file' = Absent
                               THEN [proc[q] EXCEPT !.orphan = TRUE]
                               ELSE proc[q]]
            /\ lost' = IF file.kind = "int" /\ file # proc[p].seen
                          /\ file.val * Res > now /\ file' = Absent
                       THEN [valid |-> TRUE, val |-> file.val]
                       ELSE lost
    /\ UNCHANGED <<now, ctlVars, lockVars, bypassed>>

\* line 125: open(..., "w")
RaceOpen(p) ==
    /\ proc[p].pc = "open"
    /\ file' = Truncated
    /\ proc' = [proc EXCEPT ![p] = [@ EXCEPT !.pc = "write", !.orphan = FALSE]]
    /\ UNCHANGED <<now, ctlVars, lockVars, lost, bypassed>>

\* line 126: f.write(str(int(time.time()) + seconds)), and the file is closed
RaceWrite(p) ==
    /\ proc[p].pc = "write"
    /\ IF proc[p].orphan
       THEN UNCHANGED <<file, lost>>
       ELSE /\ file' = SaveIpBlock(now, proc[p].seconds)
            /\ lost' = NoLoss
    /\ proc' = [proc EXCEPT ![p] = [IdleProc EXCEPT !.out = "return"]]
    /\ UNCHANGED <<now, ctlVars, lockVars, bypassed>>

\* the login GET of a process comes back: SUCCESS clears the file (line 249),
\* LOGIN_IP_BLOCKED saves BlockTime (line 254), anything else raises
RaceLoginAnswer(p) ==
    /\ proc[p].pc = "sent"
    /\ \/ /\ proc' = [proc EXCEPT ![p] = [IdleProc EXCEPT !.op = "remove", !.pc = "isfile",
                                                          !.seen = file]]
          /\ lost' = NoLoss
       \/ /\ \E b \in 1..MaxBlock :
                proc' = [proc EXCEPT ![p] = [IdleProc EXCEPT !.op = "save", !.pc = "open",
                                                             !.seconds = b]]
          /\ UNCHANGED lost
       \/ /\ proc' = [proc EXCEPT ![p] = [IdleProc EXCEPT !.out = "AuthError"]]
          /\ UNCHANGED lost
    /\ UNCHANGED <<now, file, ctlVars, lockVars, bypassed>>

RaceNext ==
    \/ RaceTick
    \/ \E p \in Procs :
          \/ RaceCallLoad(p)
          \/ RaceCallLogin(p)
          \/ RaceCallSave(p)
          \/ RaceRead(p)
          \/ RaceIsFile(p)
          \/ RaceUnlink(p)
          \/ RaceOpen(p)
          \/ RaceWrite(p)
          \/ RaceLoginAnswer(p)

SpecRace == RaceInit /\ [][RaceNext]_vars

\* ------------------------------------------------- Lock and Locks
\* Strings of digits are sequences of digits, so that int() and str() are
\* conversions: int("02") is 2 and str(2) is "2".
MaxFetches == 2   \* most get_user_smartloxx calls followed for one Lock

NoAccessTime == -1    \* access_time returns None

RECURSIVE ToInt(_)
ToInt(str) ==
    IF str = <<>> THEN 0
    ELSE ToInt(SubSeq(str, 1, Len(str) - 1)) * 10 + str[Len(str)]
RECURSIVE ToStr(_)
ToStr(n) == IF n < 10 THEN <<n>> ELSE Append(ToStr(n \div 10), n % 10)

START == "Start"
STOP == "Stop"

\* The ids the caller asks for; the controller knows locks 2 and 4.
LockIds == {2, 7}
Attrs == {"name", "hwid", "cluster", "disabled"}

\* One entry of gSmartloxxList["List"], in one of two settings.
Entry(id, v) ==
    [ID |-> id, Name |-> IF v = 1 THEN "front" ELSE "back",
     HwId |-> IF v = 1 THEN "A1" ELSE "B2", Cluster |-> ToStr(v),
     Disabled |-> IF v = 1 THEN "OFF" ELSE "ON"]
Lists ==
    {<<>>,
     <<Entry(ToStr(2), 1), Entry(ToStr(4), 2)>>,
     <<Entry(ToStr(4), 1), Entry(<<0, 2>>, 2)>>}

\* What a body parses to: the page of user_smartloxx.cgi, the JSON of
\* getPanelStatus.cgi and of setRemoteAccess.cgi; NoPayload does not parse.
Listing(list) == [NoPayload EXCEPT !.kind = "listing", !.List = list]
Panel(ids, times) ==
    [NoPayload EXCEPT !.kind = "panel", !.AvailableLoxx = ids, !.RemoteAccessTime = times]
Panels ==
    {Panel(<<>>, <<>>),
     Panel(<<ToStr(2), ToStr(4)>>, <<0, 5>>),
     Panel(<<ToStr(4), ToStr(2)>>, <<0, 5>>),
     Panel(<<ToStr(4), ToStr(2)>>, <<5>>)}
Payloads(endpoint, resp) ==
    IF resp.kind # "http" \/ resp.status # 200 \/ endpoint = LOGIN
    THEN {NoPayload}
    ELSE {NoPayload} \cup
         (IF endpoint = USER_SMARTLOXX THEN {Listing(l) : l \in Lists}
          ELSE IF endpoint = GET_PANEL_STATUS THEN Panels
          ELSE {[NoPayload EXCEPT !.kind = "json"]})

\* What login.cgi answers while a Lock or Locks is used.
LockLoginResponses ==
    {r \in LoginResponses :
        r.status = 200 /\ r.body.BlockTime = 0 /\ r.body.ErrMsg \in {"", "UNAUTH"}}

\* The exception of a body that does not parse: re.search gives None
\* (lines 289-291), response.json() raises (lines 296, 317).
ParseError(endpoint) ==
    IF endpoint = USER_SMARTLOXX THEN "AttributeError" ELSE "JSONDecodeError"

Failed(kind, text) == [NoOut EXCEPT !.kind = kind, !.text = text]
Value(field, v) == [[NoOut EXCEPT !.kind = "return"] EXCEPT ![field] = v]

\* Locks._get_locks, lines 496-502
GetLocksBare(list) ==
    [i \in 1..Len(list) |-> [id |-> ToInt(list[i].ID), info |-> NoInfo]]
GetLocks(list) ==
    [i \in 1..Len(list) |-> [id |-> ToInt(list[i].ID), info |-> list[i]]]

\* Locks.find_lock_by_id, lines 514-518: the position in _locks, 0 for None
RECURSIVE FindFrom(_, _, _)
FindFrom(locks, id, i) ==
    IF i > Len(locks) THEN 0
    ELSE IF id = locks[i].id THEN i
    ELSE FindFrom(locks, id, i + 1)
FindLockById(locks, id) == FindFrom(locks, id, 1)

\* Locks.__getitem__, lines 477-487
GetItemResult(locks, id) ==
    LET i == FindLockById(locks, id)
    IN IF i = 0 THEN Failed("IndexError", "No lock found") ELSE Value("number", i)

\* Lock._get_info, lines 363-368: the entry found in the listing, or NoInfo
RECURSIVE InfoFrom(_, _, _)
InfoFrom(list, id, i) ==
    IF i > Len(list) THEN NoInfo
    ELSE IF list[i].ID = ToStr(id) THEN list[i]
    ELSE InfoFrom(list, id, i + 1)
GetInfoFirst(list, id) == IF list = <<>> THEN NoInfo ELSE list[1]
GetInfo(list, id) == InfoFrom(list, id, 1)

\* Lock.name / hwid / cluster / disabled once _info is there (lines 408-441)
AttrValue(info, attr) ==
    CASE attr = "name" -> Value("text", info.Name)
      [] attr = "hwid" -> Value("text", info.HwId)
      [] attr = "cluster" -> Value("number", ToInt(info.Cluster))
      [] OTHER -> Value("flag", info.Disabled = "ON")

\* Lock.access_time, lines 381-387: zip stops at the shorter list
RECURSIVE ZipFrom(_, _, _, _)
ZipFrom(ids, times, id, i) ==
    IF i > Len(ids) \/ i > Len(times) THEN NoAccessTime
    ELSE IF ids[i] = ToStr(id) THEN times[i]
    ELSE ZipFrom(ids, times, id, i + 1)
AccessTimeLast(panel, id) ==
    IF \E i \in 1..Len(panel.AvailableLoxx) : panel.AvailableLoxx[i] = ToStr(id)
    THEN panel.RemoteAccessTime[Len(panel.RemoteAccessTime)]
    ELSE NoAccessTime
AccessTime(panel, id) == ZipFrom(panel.AvailableLoxx, panel.RemoteAccessTime, id, 1)

\* line 397: True if (access_time and access_time > 0) else False
IsOpen(access_time) == access_time # NoAccessTime /\ access_time # 0 /\ access_time > 0

\* The Lock a call is made on: lock, or the who-th of Locks._locks.
LockOf(l, who) == IF who = 0 THEN l.lock ELSE l.coll.locks[who]

LCur ==
    [coll |-> coll, snapshot |-> snapshot, lock |-> lock, task |-> task, out |-> out,
     cmds |-> cmds, fetches |-> fetches, payload |-> payload]
LBecome(l) ==
    /\ coll' = l.coll
    /\ snapshot' = l.snapshot
    /\ lock' = l.lock
    /\ task' = l.task
    /\ out' = l.out
    /\ cmds' = l.cmds
    /\ fetches' = l.fetches
    /\ payload' = l.payload

\* The call on the Lock or on Locks ends with o.
Ended(l, o) == [l EXCEPT !.task.running = FALSE, !.out = o]

\* Lock.open / Lock.close (lines 449, 457) on the Lock at position k
Command(s, l, t, k) ==
    [s |-> GetAuthenticatedEndpoint([s EXCEPT !.result = Pending], t,
                                    SET_REMOTE_ACCESS, TRUE, {"LoxxId", "Action"}),
     l |-> [l EXCEPT !.task.idx = k,
                     !.cmds = Append(@, [id |-> LockOf(l, k).id,
                                         action |-> l.task.action])]]

\* The loop of Locks.open / Locks.close (lines 521-522, 525-526) after
\* l.task.idx of the locks: the next lock, or the end of the loop.
LocksLoopReversed(s, l, t) ==
    IF l.task.idx < Len(l.coll.locks)
    THEN LET c == Command(s, l, t, Len(l.coll.locks) - l.task.idx)
         IN [c EXCEPT !.l.task.idx = l.task.idx + 1]
    ELSE [s |-> s, l |-> Ended(l, [NoOut EXCEPT !.kind = "return"])]
LocksLoop(s, l, t) ==
    IF l.task.idx < Len(l.coll.locks)
    THEN Command(s, l, t, l.task.idx + 1)
    ELSE [s |-> s, l |-> Ended(l, [NoOut EXCEPT !.kind = "return"])]

\* The call of the Controller has come back with s.result and with a body
\* that parsed to p: the rest of the method of Lock or Locks.
Resume(s, l, t, p) ==
    LET tk == l.task
        id == LockOf(l, tk.who).id
    IN CASE tk.op = "build" ->
              [s |-> s,
               l |-> Ended([l EXCEPT !.coll = [built |-> TRUE, locks |-> GetLocks(p.List)],
                                     !.snapshot = p.List],
                           [NoOut EXCEPT !.kind = "return"])]
         [] tk.op = "read" ->
              LET info == GetInfo(p.List, id)
              IN [s |-> s,
                  l |-> IF info = NoInfo
                        THEN Ended(l, Failed("WAppLoxxError", "does not exist"))
                        ELSE Ended(IF tk.who = 0 THEN [l EXCEPT !.lock.info = info]
                                   ELSE [l EXCEPT !.coll.locks[tk.who].info = info],
                                   AttrValue(info, tk.attr))]
         [] tk.op = "access_time" ->
              [s |-> s, l |-> Ended(l, Value("number", AccessTime(p, id)))]
         [] tk.op = "is_open" ->
              [s |-> s, l |-> Ended(l, Value("flag", IsOpen(AccessTime(p, id))))]
         [] tk.op \in {"Locks.open", "Locks.close"} -> LocksLoop(s, l, t)
         [] OTHER -> [s |-> s, l |-> Ended(l, [NoOut EXCEPT !.kind = "return"])]

\* After a step of the Controller: it still waits on a GET, or its call has
\* raised, which leaves the method of Lock or Locks too, or it has returned.
Continue(s, l, t, p) ==
    LET r == IF s.stack # <<>> THEN [s |-> s, l |-> l]
             ELSE IF s.result.kind # "return"
             THEN [s |-> s, l |-> Ended(l, Failed(s.result.kind, s.result.msg))]
             ELSE IF p.kind = "none"
             THEN [s |-> s, l |-> Ended(l, Failed(ParseError(l.task.endpoint), ""))]
             ELSE Resume(s, [l EXCEPT !.payload = p], t, p)
    IN IF r.s.stack = <<>> /\ r.l.task.running
       THEN [r EXCEPT !.l = Ended(r.l, Failed(r.s.result.kind, r.s.result.msg))]
       ELSE r

LocksInit ==
    /\ now = 0
    /\ file = Absent
    /\ RaceCtlInit
    /\ RaceIdle
    /\ coll = NoColl
    /\ snapshot = <<>>
    /\ lock \in {[id |-> i, info |-> NoInfo] : i \in LockIds}
    /\ task = NoTask
    /\ out = NoOut
    /\ cmds = <<>>
    /\ fetches = 0
    /\ payload = NoPayload

\* A method of Lock or Locks is called: tk says which, s is the Controller
\* after the call the method makes first (Cur when it makes none), and l is
\* the Lock and Locks after it.
LockBegin(tk, s, l) ==
    LET l1 == [l EXCEPT !.task = tk, !.payload = NoPayload]
        r == IF tk.running THEN Continue(s, l1, now, NoPayload) ELSE [s |-> s, l |-> l1]
    IN /\ Idle
       /\ ~task.running
       /\ call' = IF tk.endpoint = "" THEN NoCall ELSE CallOf(tk.accessor, tk.endpoint)
       /\ ev' = CallEv
       /\ flag0' = logged_in
       /\ file0' = file
       /\ Become(r.s)
       /\ LBecome(r.l)
       /\ UNCHANGED raceVars

TaskOf(op, accessor, endpoint) ==
    [NoTask EXCEPT !.op = op, !.accessor = accessor, !.endpoint = endpoint,
                   !.running = TRUE]

GetUserSmartloxx(s, t) == GetAuthenticatedEndpoint(s, t, USER_SMARTLOXX, TRUE, {})
GetPanelStatus(s, t) == GetAuthenticatedEndpoint(s, t, GET_PANEL_STATUS, TRUE, {})

\* Locks(controller), lines 473-475
NewLocks ==
    /\ ~coll.built
    /\ LockBegin(TaskOf("build", "get_user_smartloxx", USER_SMARTLOXX),
                 GetUserSmartloxx(Fresh, now), LCur)

\* locks[id], lines 477-487
GetItem ==
    /\ coll.built
    /\ \E id \in LockIds :
          LockBegin([NoTask EXCEPT !.op = "getitem", !.id = id],
                    Fresh,
                    [LCur EXCEPT !.out = GetItemResult(coll.locks, id)])

\* lock.name, lock.hwid, lock.cluster, lock.disabled (lines 399-441) on lock
\* or on one of Locks._locks
ReadAttribute ==
    \E who \in 0..Len(coll.locks), attr \in Attrs :
        LET lk == LockOf(LCur, who)
        IN IF lk.info # NoInfo
           THEN LockBegin([NoTask EXCEPT !.op = "read", !.who = who, !.attr = attr],
                          Fresh,
                          [LCur EXCEPT !.out = AttrValue(lk.info, attr)])
           ELSE /\ fetches < MaxFetches
                /\ LockBegin([TaskOf("read", "get_user_smartloxx", USER_SMARTLOXX)
                                 EXCEPT !.who = who, !.attr = attr],
                             GetUserSmartloxx(Fresh, now),
                             [LCur EXCEPT !.fetches = IF who = 0 THEN @ + 1 ELSE @])

\* lock.access_time, lines 370-387
ReadAccessTime ==
    \E who \in 0..Len(coll.locks) :
        LockBegin([TaskOf("access_time", "get_panel_status", GET_PANEL_STATUS)
                      EXCEPT !.who = who],
                  GetPanelStatus(Fresh, now), LCur)

\* lock.is_open, lines 389-397
ReadIsOpen ==
    \E who \in 0..Len(coll.locks) :
        LockBegin([TaskOf("is_open", "get_panel_status", GET_PANEL_STATUS)
                      EXCEPT !.who = who],
                  GetPanelStatus(Fresh, now), LCur)

\* lock.open() and lock.close(), lines 443-457
OpenOrCloseLock ==
    \E who \in {0}, action \in {START, STOP} :
        LET tk == [TaskOf(IF action = START THEN "open" ELSE "close",
                          "set_remote_access", SET_REMOTE_ACCESS)
                      EXCEPT !.who = who, !.action = action]
            c == Command(Fresh, [LCur EXCEPT !.task = tk, !.cmds = <<>>], now, who)
        IN LockBegin([tk EXCEPT !.idx = who], c.s, c.l)

\* locks.open() and locks.close(), lines 520-526
OpenOrCloseLocks ==
    /\ coll.built
    /\ \E action \in {START, STOP} :
          LET tk == [TaskOf(IF action = START THEN "Locks.open" ELSE "Locks.close",
                            "set_remote_access", SET_REMOTE_ACCESS)
                        EXCEPT !.action = action]
              c == LocksLoop(Fresh, [LCur EXCEPT !.task = tk, !.cmds = <<>>], now)
          IN LockBegin(c.l.task, c.s, c.l)

\* The GET of the innermost frame comes back, and the method of Lock or
\* Locks goes on when that ends the call of the Controller.
LockResponse ==
    /\ stack # <<>>
    /\ task.running
    /\ \E resp \in (IF Top(stack).endpoint = LOGIN THEN LockLoginResponses ELSE Responses) :
       \E p \in Payloads(Top(stack).endpoint, resp) :
          LET s == Respond(Cur, now, resp)
              r == Continue(s, LCur, now, IF s.stack = <<>> THEN p ELSE NoPayload)
          IN /\ Len(r.s.stack) <= MaxDepth
             /\ s.stack # <<>> => p = NoPayload
             /\ ev' = [type |-> resp.kind, status |-> resp.status, body |-> resp.body]
             /\ Become(r.s)
             /\ LBecome(r.l)
             /\ UNCHANGED <<call, flag0, file0>>
             /\ UNCHANGED raceVars

LocksNext ==
    \/ NewLocks
    \/ GetItem
    \/ ReadAttribute
    \/ ReadAccessTime
    \/ ReadIsOpen
    \/ OpenOrCloseLock
    \/ OpenOrCloseLocks
    \/ LockResponse

SpecLocks == LocksInit /\ [][LocksNext]_vars

\* ------------------------------------------------ reading the steps
\* The step is a call made by the caller.
CallStep == ev'.type = "call"

\* The step consumes an HTTP response with this status.
AnsweredWith(status) == ev'.type = "http" /\ ev'.status = status

\* The step calls one of the functions of the IP-block file directly.
StoreOps == {"_save_ip_block", "_remove_ip_block", "_load_ip_block_remaining_seconds"}

\* The step is a direct call of _load_ip_block_remaining_seconds().
LoadStep == CallStep /\ call'.op = "_load_ip_block_remaining_seconds"

\* The step runs login() with check_ip_block=True on the state before it:
\* the caller's login(), the login of line 213, or the re-login of line 233.
LoginCheckedStep ==
    \/ CallStep /\ call'.op = "login" /\ call'.check
    \/ CallStep /\ call'.op \notin StoreOps \cup {"login"}
                /\ ~logged_in /\ call'.endpoint \notin AUTH
    \/ AnsweredWith(401)

\* The stored record has remaining seconds > 0 / has expired.
Unexpired == file.kind = "int" /\ file.val * Res > now
Expired == file.kind = "int" /\ file.val * Res <= now

\* The response returned by a frame above st reaches a login() frame
\* (through the frames that wait at line 234, which pass it on).
RECURSIVE ReturnsToLogin(_)
ReturnsToLogin(st) ==
    IF st = <<>> THEN FALSE
    ELSE IF Top(st).fn = "login" THEN TRUE
    ELSE ReturnsToLogin(Pop(st))

\* The frames under that login() frame: <<>> when the caller called login().
RECURSIVE LoginCaller(_)
LoginCaller(st) ==
    IF st = <<>> THEN <<>>
    ELSE IF Top(st).fn = "login" THEN Pop(st)
    ELSE LoginCaller(Pop(st))

\* The step hands login() this parsed body of the login endpoint.
LoginAnswered(body) ==
    /\ stack # <<>>
    /\ Top(stack).endpoint = LOGIN
    /\ ReturnsToLogin(Pop(stack))
    /\ AnsweredWith(200)
    /\ ev'.body = body

\* The GETs of the current call that went to this endpoint.
RequestsTo(endpoint) == {i \in DOMAIN reqs : reqs[i].endpoint = endpoint}

IsLogout == call.op \in {"logout", "__exit__"}

\* ------------------------------------------------------------ claims

\* C1 (as claimed): one call of the authenticated dispatch that receives 401
\* performs one re-login and one retried request; a second 401 ends the call,
\* so the endpoint of a call is requested at most twice and line 233 runs at
\* most once.  The code recurses instead (line 234), and this is violated.
C1_Original ==
    call.endpoint # LOGIN =>
        /\ Cardinality(RequestsTo(call.endpoint)) <= 2
        /\ relogins <= 1

\* C2: login() with check_ip_block=True while the stored record has remaining
\* seconds > 0 raises IPBlockedError, sends no GET, and leaves _logged_in and
\* the file unchanged.
C2_BlockedLoginSendsNothing ==
    [][(LoginCheckedStep /\ Unexpired) =>
        /\ result'.kind = "IPBlockedError"
        /\ stack' = <<>>
        /\ reqs' = (IF CallStep THEN <<>> ELSE reqs)
        /\ logged_in' = logged_in
        /\ last_login' = last_login
        /\ file' = file]_vars

C2_Witness ==
    /\ call.op = "login" /\ call.check /\ ev.type = "call"
    /\ result.kind = "IPBlockedError"
    /\ file.kind = "int" /\ file.val * Res > now
    /\ reqs = <<>>

\* C3: when the login endpoint answers with Status SUCCESS, login() sets
\* _logged_in, leaves no IP-block file whatever was stored, records the login
\* instant, and returns the parsed body unchanged.
C3_SuccessfulLogin ==
    [][\A body \in Bodies :
        (LoginAnswered(body) /\ body.Status = "SUCCESS") =>
            /\ logged_in'
            /\ file' = Absent
            /\ last_login' = now
            /\ LoginCaller(Pop(stack)) = <<>> =>
                  stack' = <<>> /\ result' = ReturnedBody(body)]_vars

C3_Witness ==
    /\ call.op = "login" /\ ev.type = "http" /\ ev.body.Status = "SUCCESS"
    /\ result = ReturnedBody(ev.body)
    /\ logged_in /\ last_login = now
    /\ file0.kind = "int" /\ file0.val * Res > now
    /\ file = Absent

\* C4: when the login endpoint answers a non-success body with ErrMsg
\* LOGIN_IP_BLOCKED, login() raises AuthError "Wrong entry. Login blocked.";
\* with save_ip_block_time the file has by then been overwritten with
\* int(time.time()) + BlockTime, without it the file is unchanged.
C4_IpBlockedLogin ==
    [][\A body \in Bodies :
        (LoginAnswered(body) /\ body.Status # "SUCCESS"
                             /\ body.ErrMsg = "LOGIN_IP_BLOCKED") =>
            /\ stack' = <<>>
            /\ result'.kind = "AuthError"
            /\ result'.msg = "Wrong entry. Login blocked."
            /\ logged_in' = logged_in
            /\ file' = (IF save_ip_block_time
                        THEN Stored((now \div Res) + body.BlockTime)
                        ELSE file)]_vars

C4_Witness ==
    /\ result.kind = "AuthError" /\ result.msg = "Wrong entry. Login blocked."
    /\ ev.type = "http" /\ ev.body.ErrMsg = "LOGIN_IP_BLOCKED"
    /\ ev.body.BlockTime > 0
    /\ save_ip_block_time
    /\ file0.kind = "int" /\ file0 # file
    /\ file = Stored((now \div Res) + ev.body.BlockTime)

\* C5 (as claimed): _load_ip_block_remaining_seconds() on an unparsable file
\* returns 0 and leaves the file as it is.
C5_Original ==
    [][(LoadStep /\ file = Garbage) =>
        (result'.value = 0 /\ file' = file)]_vars

\* C5 (amended): _load_ip_block_remaining_seconds() on an unparsable file
\* returns 0 and removes the file; so does the check of a login() with
\* check_ip_block=True, which then goes on to its GET.
C5_UnparsableIsRemoved ==
    [][/\ (LoadStep /\ file = Garbage) =>
            (result' = ReturnedValue(0) /\ file' = Absent)
       /\ (LoginCheckedStep /\ file = Garbage) =>
            (file' = Absent /\ result'.kind # "IPBlockedError")]_vars

C5_Witness ==
    /\ call.op = "_load_ip_block_remaining_seconds" /\ ev.type = "call"
    /\ file0 = Garbage
    /\ file = Absent
    /\ result = ReturnedValue(0)

\* C6: _load_ip_block_remaining_seconds() never returns a negative number;
\* called at or after the stored expiry it returns 0 and the file is gone
\* afterwards; when it returns a value > 0 the file is left unchanged.
C6_RemainingSeconds ==
    [][/\ LoadStep =>
            /\ result'.kind = "return"
            /\ result'.value >= 0
            /\ Expired => (result'.value = 0 /\ file' = Absent)
            /\ result'.value > 0 => file' = file
       /\ (LoginCheckedStep /\ Expired) => file' = Absent]_vars

C6_Witness ==
    /\ call.op = "_load_ip_block_remaining_seconds" /\ ev.type = "call"
    /\ file0.kind = "int" /\ file0.val > 0 /\ file0.val * Res <= now
    /\ file = Absent
    /\ result = ReturnedValue(0)

\* C7: _save_ip_block(s) followed, less than one second later, by
\* _load_ip_block_remaining_seconds() returns s-1 or s and never less than 0,
\* whatever the file held before the save.
C7_SaveThenLoad ==
    [][(LoadStep /\ saved.valid /\ now - saved.at < Res) =>
        /\ result'.value \in {saved.seconds - 1, saved.seconds}
        /\ result'.value >= 0]_vars

C7_Witness ==
    /\ call.op = "_load_ip_block_remaining_seconds" /\ ev.type = "call"
    /\ saved.valid /\ now > saved.at /\ now - saved.at < Res
    /\ file0.kind = "int"
    /\ result.value = saved.seconds - 1

\* C8: no GET of an endpoint other than login/logout is sent while _logged_in
\* is false; a call for such an endpoint made while unauthenticated sends the
\* login GET first; a call for login or logout sends its own GET first.
C8_NoRequestWhileUnauthenticated ==
    /\ \A i \in DOMAIN reqs : reqs[i].endpoint \notin AUTH => reqs[i].flag
    /\ (call.op \notin StoreOps \cup {"none"} /\ reqs # <<>>) =>
          reqs[1].endpoint = (IF call.endpoint \notin AUTH /\ ~flag0
                              THEN LOGIN ELSE call.endpoint)
    /\ (call.endpoint \notin AUTH /\ ~logged_in) => RequestsTo(call.endpoint) = {}

C8_Witness ==
    /\ Len(reqs) >= 2
    /\ reqs[1].endpoint = LOGIN
    /\ reqs[2].endpoint \notin AUTH
    /\ ~flag0 /\ reqs[2].flag

\* C9 (as claimed): a response with a non-2xx status other than 401 ends the
\* call with WAppLoxxError.
C9_Original ==
    [][\A status \in Statuses :
        (AnsweredWith(status) /\ ~(status >= 200 /\ status < 300) /\ status # 401) =>
            result'.kind = "WAppLoxxError"]_vars

\* C9 (amended): a response with a 4xx or 5xx status other than 401 ends the
\* call with WAppLoxxError naming the endpoint and the status, with no
\* re-login, no further GET, and _logged_in and the file unchanged.
C9_ErrorStatus ==
    [][\A status \in Statuses :
        (AnsweredWith(status) /\ status >= 400 /\ status < 600 /\ status # 401) =>
            /\ result' = Raised("WAppLoxxError", Top(stack).endpoint, status)
            /\ stack' = <<>>
            /\ relogins' = relogins
            /\ reqs' = reqs
            /\ logged_in' = logged_in
            /\ last_login' = last_login
            /\ file' = file]_vars

C9_Witness ==
    /\ result.kind = "WAppLoxxError" /\ result.status = 404
    /\ ev.type = "http" /\ ev.status = 404
    /\ call.endpoint \notin AUTH
    /\ stack = <<>>

\* C10 (as claimed): logout() never changes _logged_in and never performs a
\* login.
C10_Original ==
    IsLogout => (logged_in = flag0 /\ RequestsTo(LOGIN) = {})

\* C10 (amended): logout() never sets _logged_in to false and sends the
\* logout GET first, without the login of line 213; as long as no logout GET
\* is answered 401 the flag is unchanged and no login is performed.
C10_LogoutNeverResets ==
    IsLogout =>
        /\ flag0 => logged_in
        /\ reqs # <<>> /\ reqs[1].endpoint = LOGOUT
        /\ relogins = 0 => (logged_in = flag0 /\ RequestsTo(LOGIN) = {})

C10_Witness ==
    /\ IsLogout
    /\ ~flag0 /\ logged_in
    /\ relogins = 1
    /\ stack = <<>> /\ result.kind = "return"

\* The step ends the call with an exception.
Errors == {"IPBlockedError", "AuthError", "WAppLoxxError", "TransportError"}
RaiseStep == stack' = <<>> /\ result'.kind \in Errors /\ ev'.type \in {"call", "http", "error"}

\* C13 (as claimed): once a LOGIN_IP_BLOCKED response with block duration b
\* has been saved, and while that record is still the one in the file, no
\* login with the check gets to send its GET before b full seconds have
\* passed since the response.
C13_Original ==
    [][(LoginCheckedStep /\ saved.valid /\ saved.by = "response"
        /\ now - saved.at < saved.seconds * Res) =>
            (result'.kind = "IPBlockedError"
             /\ reqs' = (IF CallStep THEN <<>> ELSE reqs))]_vars

\* C13 (amended): ... no login with the check gets to send its GET before the
\* stored expiry int(time.time()) + b, which lies more than b-1 and at most b
\* seconds after the response; each such attempt raises IPBlockedError.
C13_BlockedUntilStoredExpiry ==
    [][(LoginCheckedStep /\ saved.valid /\ saved.by = "response"
        /\ (now < ((saved.at \div Res) + saved.seconds) * Res
            \/ now - saved.at <= (saved.seconds - 1) * Res)) =>
            (result'.kind = "IPBlockedError"
             /\ stack' = <<>>
             /\ file' = file
             /\ reqs' = (IF CallStep THEN <<>> ELSE reqs))]_vars

C13_Witness ==
    /\ saved.valid /\ saved.by = "response" /\ saved.seconds > 0
    /\ now > saved.at
    /\ now < ((saved.at \div Res) + saved.seconds) * Res
    /\ ev.type = "call" /\ call.op # "login"
    /\ result.kind = "IPBlockedError"
    /\ reqs = <<>>

\* C14 (as claimed): the request retried after a 401 has the endpoint and the
\* query parameters of the request that received the 401, with and without
\* use_default_params.  Line 234 does not pass use_default_params on, so the
\* retry of a call made with use_default_params=False gains ts and Source.
C14_Original ==
    \A i \in 1..(Len(stack) - 1) :
        (stack[i].fn = "dispatch" /\ stack[i].pc = "retry") =>
            /\ stack[i + 1].endpoint = stack[i].endpoint
            /\ stack[i + 1].params = stack[i].params

\* C18: _logged_in only ever goes to true, and only in a step that hands
\* login() a body with Status SUCCESS; a step that ends in an exception leaves
\* it as it was; a call made while it is true sends its own GET first.
C18_FlagOnlySetBySuccess ==
    [][/\ logged_in => logged_in'
       /\ (logged_in' /\ ~logged_in) =>
             \E body \in Bodies : body.Status = "SUCCESS" /\ LoginAnswered(body)
       /\ RaiseStep => logged_in' = logged_in
       /\ (CallStep /\ logged_in /\ call'.op \notin StoreOps \cup {"login"}) =>
             (reqs' # <<>> /\ reqs'[1].endpoint = call'.endpoint)]_vars

C18_Witness ==
    /\ flag0 /\ logged_in
    /\ relogins >= 1
    /\ stack = <<>>
    /\ result.kind \in {"AuthError", "IPBlockedError"}

\* C19: _last_successful_login_timestamp is set exactly when _logged_in is
\* true, in every state.
C19_TimestampIffFlag ==
    logged_in <=> last_login # NoTimestamp

C19_Witness ==
    /\ logged_in /\ last_login # NoTimestamp /\ last_login < now
    /\ IsLogout /\ flag0
    /\ stack = <<>> /\ result.kind = "return"

\* C17: with two processes on one file, the clearing step of a process that
\* read an expired or unparsable record deletes whatever the file holds by
\* then, also an unexpired record the other process saved after the read, and
\* a login() check that finds no file is not vetoed.
C17_StaleClearDeletesFreshRecord ==
    [][\A p \in Procs :
        /\ (proc[p].pc = "unlink" /\ proc'[p].pc # "unlink" /\ file.kind # "absent") =>
              file' = Absent
        /\ (proc[p].pc = "read" /\ proc'[p].pc # "read" /\ proc[p].op = "login"
            /\ file.kind = "absent") =>
              proc'[p].pc = "sent"]_vars

\* The interleaving: a fresh unexpired record was deleted by a stale clearing
\* step, and a later login() found no file and sent its GET while that
\* record would still be in force.
C17_Witness ==
    /\ bypassed
    /\ lost.valid /\ lost.val * Res > now
    /\ file = Absent
    /\ \E p \in Procs : proc[p].op = "login" /\ proc[p].pc = "sent"

\* --------------------------------------------- claims on Lock and Locks
\* The Lock the current (or last) call is made on.
Target == LockOf(LCur, task.who)
\* The places where the zip of a panel status pairs the id of Target.
Hits(p) ==
    {i \in 1..Len(p.AvailableLoxx) :
        i <= Len(p.RemoteAccessTime) /\ p.AvailableLoxx[i] = ToStr(Target.id)}
\* The value an attribute read must give for an entry of a listing.
Shows(o, e, attr) ==
    /\ o.kind = "return"
    /\ attr = "name" => o.text = e.Name
    /\ attr = "hwid" => o.text = e.HwId
    /\ attr = "cluster" => o.number = ToInt(e.Cluster)
    /\ attr = "disabled" => o.flag = (e.Disabled = "ON")

\* C11: on a Locks object built from one listing, locks[id] raises IndexError
\* when no entry of the listing has that id and gives the Lock of that id
\* otherwise; reading name, hwid, cluster or disabled of a Lock of the
\* collection gives the fields of its entry in the listing; neither sends a
\* GET nor changes the collection.
C11_PrePopulatedCollection ==
    [][(~task.running /\ coll.built) =>
        /\ task'.op = "getitem" =>
              /\ reqs' = <<>> /\ stack' = <<>> /\ coll' = coll /\ ~task'.running
              /\ IF \E i \in 1..Len(snapshot) : ToInt(snapshot[i].ID) = task'.id
                 THEN /\ out'.kind = "return"
                      /\ out'.number \in 1..Len(snapshot)
                      /\ ToInt(snapshot[out'.number].ID) = task'.id
                      /\ coll.locks[out'.number].id = task'.id
                 ELSE out'.kind = "IndexError"
        /\ (task'.op = "read" /\ task'.who >= 1) =>
              /\ reqs' = <<>> /\ stack' = <<>> /\ coll' = coll /\ ~task'.running
              /\ Shows(out', snapshot[task'.who], task'.attr)]_vars

C11_Witness ==
    /\ coll.built /\ Len(snapshot) = 2 /\ snapshot[2].ID = <<0, 2>>
    /\ task.op = "read" /\ task.who = 2 /\ task.attr = "cluster" /\ ~task.running
    /\ out.kind = "return" /\ out.number = 2
    /\ reqs = <<>>

\* C12: every read of access_time or is_open calls get_panel_status; the
\* value is the RemoteAccessTime entry at the index where AvailableLoxx has
\* the id of the lock, is_open is true exactly when that entry is above 0,
\* and with no such index access_time is None and is_open is false.
C12_AccessTimeNeverCached ==
    [][/\ (~task.running /\ task'.op \in {"access_time", "is_open"}) =>
              /\ task'.running /\ stack' # <<>>
              /\ call'.op = "get_panel_status"
              /\ reqs' # <<>>
              /\ logged_in => reqs'[1].endpoint = GET_PANEL_STATUS
       /\ (task.running /\ ~task'.running /\ task.op \in {"access_time", "is_open"}
           /\ out'.kind = "return") =>
              /\ payload'.kind = "panel"
              /\ reqs'[Len(reqs')].endpoint = GET_PANEL_STATUS
              /\ Hits(payload') = {} =>
                    IF task.op = "access_time" THEN out'.number = NoAccessTime
                    ELSE out'.flag = FALSE
              /\ \A i \in Hits(payload') :
                    IF task.op = "access_time"
                    THEN out'.number = payload'.RemoteAccessTime[i]
                    ELSE out'.flag = (payload'.RemoteAccessTime[i] > 0)]_vars

C12_Witness ==
    /\ task.op = "is_open" /\ ~task.running /\ Target.id = 2
    /\ payload.kind = "panel" /\ payload.AvailableLoxx = <<ToStr(4), ToStr(2)>>
    /\ payload.RemoteAccessTime = <<0, 5>>
    /\ out.kind = "return" /\ out.flag
    /\ Len(reqs) >= 2

\* C15: Locks.open() / Locks.close() calls set_remote_access once per Lock of
\* _locks, in the order of _locks, with START / STOP; when a call raises, the
\* exception leaves the loop, no further call is made and none is made for
\* the locks already commanded.
C15_BulkInOrderAbortOnFailure ==
    [][task'.op \in {"Locks.open", "Locks.close"} =>
        /\ task'.action = (IF task'.op = "Locks.open" THEN START ELSE STOP)
        /\ Len(cmds') = task'.idx /\ Len(cmds') <= Len(coll'.locks)
        /\ \A i \in 1..Len(cmds') :
              cmds'[i] = [id |-> coll'.locks[i].id, action |-> task'.action]
        /\ task'.running =>
              stack' # <<>> /\ stack'[1].endpoint = SET_REMOTE_ACCESS
        /\ (~task'.running /\ out'.kind = "return") => Len(cmds') = Len(coll'.locks)
        /\ (task.running /\ result'.kind \notin {"pending", "return"}) =>
              /\ ~task'.running /\ stack' = <<>>
              /\ out'.kind = result'.kind
              /\ cmds' = cmds
        /\ (task.running /\ task'.running /\ cmds' # cmds) =>
              /\ Ok(ev'.status) /\ ev'.type = "http"
              /\ Len(cmds') = Len(cmds) + 1]_vars

C15_Witness ==
    /\ task.op = "Locks.open" /\ ~task.running
    /\ Len(coll.locks) = 2 /\ Len(cmds) = 1
    /\ cmds[1] = [id |-> coll.locks[1].id, action |-> START]
    /\ out.kind = "WAppLoxxError"
    /\ \E i \in 1..Len(reqs) : reqs[i].endpoint = SET_REMOTE_ACCESS

\* C16 as stated: a Lock that was not pre-populated fetches the listing at
\* most once.
C16_Original == fetches <= 1

\* C16: a read of name, hwid, cluster or disabled on a Lock whose _info is
\* set sends no GET and gives the fields of _info, which never changes again;
\* a read on a Lock whose _info is not set calls get_user_smartloxx, and
\* caches the entry of its id when the read succeeds, caches nothing when it
\* fails, and fails with WAppLoxxError when the listing has no entry of its id.
C16_CachedAfterFirstSuccess ==
    [][/\ (~task.running /\ task'.op = "read" /\ task'.who = 0) =>
              IF lock.info # NoInfo
              THEN /\ reqs' = <<>> /\ stack' = <<>> /\ ~task'.running
                   /\ fetches' = fetches
                   /\ Shows(out', lock.info, task'.attr)
              ELSE /\ fetches' = fetches + 1
                   /\ call'.op = "get_user_smartloxx"
                   /\ task'.running
       /\ (task.running /\ ~task'.running /\ task.op = "read" /\ task.who = 0) =>
              IF out'.kind = "return"
              THEN /\ payload'.kind = "listing"
                   /\ \E i \in 1..Len(payload'.List) :
                         /\ payload'.List[i].ID = ToStr(lock.id)
                         /\ lock'.info = payload'.List[i]
                   /\ Shows(out', lock'.info, task.attr)
              ELSE /\ lock'.info = NoInfo
                   /\ (result'.kind = "return" /\ payload'.kind = "listing") =>
                         /\ out'.kind = "WAppLoxxError" /\ out'.text = "does not exist"
                         /\ \A i \in 1..Len(payload'.List) :
                               payload'.List[i].ID # ToStr(lock.id)
       /\ lock.info # NoInfo => lock' = lock
       /\ fetches' >= fetches]_vars

C16_Witness ==
    /\ lock.info # NoInfo /\ fetches = 2
    /\ task.op = "read" /\ task.who = 0 /\ ~task.running
    /\ out.kind = "return" /\ reqs = <<>>
====
